---- MODULE Spec2Model ----
(***************************************************************************)
(* Model of scripts/post-daily-events.ts: the daily digest driver (main),  *)
(* the per-chapter run (postChapter), the paginated retrieval              *)
(* (fetchAllEvents), the window filter (filterAndSortEvents) and the Block *)
(* Kit builder (buildBlocks).                                              *)
(*                                                                         *)
(* Instants are integers in milliseconds.  An ISO 8601 string with an      *)
(* explicit UTC offset is a record [wall, offset]; new Date(s).getTime()   *)
(* is wall - offset.  Inputs follow the declared interfaces (lines 15-43). *)
(***************************************************************************)
EXTENDS Integers, Sequences, FiniteSets

VARIABLES
    config,     \* the environment: SOLIDARITY_TECH_API_KEY, SLACK_BOT_TOKEN, CHAPTER_CHANNEL_MAPPING
    daysAhead,  \* EVENTS_DAYS_AHEAD
    now,        \* the last reading of the clock
    pc,         \* where main is
    mappings,   \* main: the parsed chapter mappings
    idx,        \* main: position of the for loop in mappings (1-based)
    anyFailed,  \* main: anyFailed
    outcome,    \* the exit status of the process
    upstream,   \* the events the API holds for the chapter being fetched
    page,       \* fetchAllEvents: page
    allEvents,  \* fetchAllEvents: allEvents; then postChapter: allEvents
    requested,  \* the page requests sent to the events API, in order
    apiErrors,  \* the page requests the events API answered with a non-success status
    filtered,   \* postChapter: events
    blocks,     \* postChapter: blocks
    posted,     \* the messages the chat API accepted, in order
    attempts,   \* the chapters whose run was started, in order
    status      \* per chapter: "pending", "running", "ok", "failed"

vars ==
    <<config, daysAhead, now, pc, mappings, idx, anyFailed, outcome, upstream, page,
      allEvents, requested, apiErrors, filtered, blocks, posted, attempts, status>>

\* ------------------------------------------------------------------ bounds
\* chapters in CHAPTER_CHANNEL_MAPPING
MaxChapters == 2
\* full pages the upstream may hold for one chapter
MaxFullPages == 2
\* length of the exhaustively enumerated event lists of PipelineSpec
MaxLen == 2
\* length of the long (cyclic) event lists of PipelineSpec
MaxEvents == 50
\* largest reading of the clock
MaxClock == 1
\* largest EVENTS_DAYS_AHEAD
MaxDaysAhead == 1

\* --------------------------------------------------------- program constants
limit == 100
MAX_GROUPS == 23
SlackMaxBlocks == 50
HourMs == 60 * 60 * 1000
DayMs == 24 * 60 * 60 * 1000

\* JavaScript null (event_page_url, location_name are nullable strings)
Null == "<null>"
\* a value in a boolean context, for the strings of this program
Truthy(s) == s # Null /\ s # ""

EXCLUDE_TAG == "slack-exclude"

\* ------------------------------------------------------------------ inputs
\* new Date(isoString).getTime()
getTime(t) == t.wall - t.offset

Iso(wall, offset) == [wall |-> wall, offset |-> offset]

Session(sid, start, dur, name, address) ==
    [id |-> sid, start_time |-> start,
     end_time |-> Iso(start.wall + dur, start.offset),
     location_name |-> name, location_address |-> address]

\* Sessions of the catalogue; instants (UTC): -1, 0, 1, HourMs (twice, with
\* different offsets), DayMs, DayMs + 1, 2 * DayMs.
SPast == Session(1, Iso(-1, 0), HourMs, Null, "1 Main St")
SNow0 == Session(2, Iso(0, 0), HourMs, "Library", "")
SNow1 == Session(3, Iso(1 - 5 * HourMs, -5 * HourMs), HourMs, Null, "2 Oak Ave")
SMid == Session(4, Iso(HourMs, 0), HourMs, "Union Hall", "3 Elm St")
SMidWest == Session(5, Iso(-5 * HourMs, -6 * HourMs), HourMs, "Cafe", "")
SCut == Session(6, Iso(DayMs - 6 * HourMs, -6 * HourMs), HourMs, Null, "4 Pine Rd")
SCut1 == Session(7, Iso(DayMs + 1, 0), HourMs, Null, "")
SLate == Session(8, Iso(2 * DayMs - 6 * HourMs, -6 * HourMs), HourMs, "Park", "")

Event(title, url, tags, type, sessions) ==
    [id |-> 0, title |-> title, event_page_url |-> url, tags |-> tags,
     event_type |-> type, event_sessions |-> sessions]

\* The shapes of event the upstream returns (interface SolidarityEvent).
Catalog ==
    << Event("A", "https://e/a", {"public"}, "in_person", <<SMid>>),
       Event("B", "https://e/b", {}, "Virtual", <<SCut, SNow1>>),
       Event("C", Null, {}, "in_person", <<SMid>>),
       Event("D", "https://e/d", {"public", "slack-exclude"}, "hybrid", <<SNow1>>),
       Event("E", "https://e/e", {"Slack-Exclude"}, "hybrid", <<SLate, SMidWest, SNow0>>),
       Event("F", "https://e/f", {}, "in-person", <<SPast, SCut1>>),
       Event("G", "", {}, "virtual", <<SNow0>>),
       Event("H", "https://e/h", {}, "webinar", <<SNow1, SNow0>>),
       Event("I", "https://e/i", {}, "online", <<>>),
       Event("J", "https://e/j", {}, "online", <<SMidWest>>) >>

NShapes == Len(Catalog)

\* the event of shape k with identity i
EventAt(k, i) == [Catalog[k] EXCEPT !.id = i]

\* The n events the upstream holds for a chapter, in the order it serves them.
Upstream(n) == [i \in 1..n |-> EventAt(((i - 1) % NShapes) + 1, i)]

\* every list of at most n events over the catalogue
ListsUpTo(n) ==
    UNION {{[i \in 1..m |-> EventAt(f[i], i)] : f \in [1..m -> 1..NShapes]} : m \in 0..n}

\* the sizes an upstream collection may have: on, just after and just before
\* a page boundary
UpstreamSizes ==
    {k * limit + d : k \in 0..MaxFullPages, d \in {0, 1}} \cup {limit - 1}

\* ------------------------------------------------------ filterAndSortEvents
\* a faulty CompareEvents: the operands exchanged
CompareEventsDescending(a, b) ==
    getTime(b.event_sessions[1].start_time) - getTime(a.event_sessions[1].start_time)

\* Array.prototype.sort is stable: the elements the comparator calls equal
\* keep their input order, and the classes of equal elements come in the
\* comparator's ascending order.  The sort therefore returns the class of a
\* least element, in input order, followed by the sort of the rest.
\* lines 109-111: the comparator of the event sort
CompareEvents(a, b) ==
    getTime(a.event_sessions[1].start_time) - getTime(b.event_sessions[1].start_time)

\* line 105: the comparator of the session sort
CompareSessions(a, b) == getTime(a.start_time) - getTime(b.start_time)

RECURSIVE SortEvents(_)
SortEvents(s) ==
    IF Len(s) <= 1 THEN s
    ELSE LET least == s[CHOOSE i \in 1..Len(s) :
                          \A j \in 1..Len(s) : CompareEvents(s[i], s[j]) <= 0]
         IN  SelectSeq(s, LAMBDA e : CompareEvents(e, least) = 0)
             \o SortEvents(SelectSeq(s, LAMBDA e : CompareEvents(e, least) # 0))

RECURSIVE SortSessions(_)
SortSessions(s) ==
    IF Len(s) <= 1 THEN s
    ELSE LET least == s[CHOOSE i \in 1..Len(s) :
                          \A j \in 1..Len(s) : CompareSessions(s[i], s[j]) <= 0]
         IN  SelectSeq(s, LAMBDA e : CompareSessions(e, least) = 0)
             \o SortSessions(SelectSeq(s, LAMBDA e : CompareSessions(e, least) # 0))

\* line 97
Eligible(event) ==
    Truthy(event.event_page_url) /\ ~(EXCLUDE_TAG \in event.tags)

\* a faulty InWindow: the cutoff itself left out of the window
InWindowExclusive(s, t0, cutoff) ==
    getTime(s.start_time) >= t0 /\ getTime(s.start_time) < cutoff

\* lines 101-104
InWindow(s, t0, cutoff) ==
    getTime(s.start_time) >= t0 /\ getTime(s.start_time) <= cutoff

\* lines 98-106
WindowSessions(event, t0, cutoff) ==
    [event EXCEPT !.event_sessions =
        SortSessions(SelectSeq(event.event_sessions, LAMBDA s : InWindow(s, t0, cutoff)))]

MapWindow(events, t0, cutoff) ==
    [i \in 1..Len(events) |-> WindowSessions(events[i], t0, cutoff)]

\* a faulty HasSessions: events without sessions are not dropped
HasSessionsAlways(event) == TRUE

\* line 107
HasSessions(event) == Len(event.event_sessions) > 0

\* The comparator of lines 109-111 reads event_sessions[0].start_time: a
\* TypeError if it is ever called on an event without sessions.
ComparatorThrows(events) ==
    Len(events) >= 2 /\ \E i \in 1..Len(events) : Len(events[i].event_sessions) = 0

\* line 94
Cutoff(t0, days) == t0 + days * DayMs

Returned(v) == [threw |-> FALSE, value |-> v]

Thrown == [threw |-> TRUE, value |-> <<>>]

filterAndSortEvents(events, days, t0) ==
    LET cutoff == Cutoff(t0, days)
        kept == SelectSeq(MapWindow(SelectSeq(events, Eligible), t0, cutoff), HasSessions)
    IN  IF ComparatorThrows(kept) THEN Thrown ELSE Returned(SortEvents(kept))

\* -------------------------------------------------------------- formatting
\* formatDateRange renders the two instants in the fixed display zone: the
\* text is a function of the instants alone, not of the offsets they came in.
formatDateRange(startDate, endDate) == [start |-> startDate, end |-> endDate]

\* a faulty toLowerCase: the event type is not normalised
toLowerCaseOmitted(s) == s

\* lines 145-148: the window's two ends, rendered as dates in the display zone
formatHeaderDateRange(t0, days) == [from |-> t0, to |-> t0 + days * DayMs]

\* String.prototype.toLowerCase on the event types of the catalogue
toLowerCase(s) ==
    CASE s = "Virtual" -> "virtual"
      [] s = "Hybrid" -> "hybrid"
      [] s = "Online" -> "online"
      [] OTHER -> s

eventTypeLabel(eventType) ==
    CASE eventType \in {"in_person", "in-person"} -> "In Person"
      [] eventType \in {"virtual", "online"} -> "Virtual"
      [] eventType = "hybrid" -> "Hybrid"
      [] OTHER -> ""

\* ------------------------------------------------------------- buildBlocks
headerBlock(chapterName) ==
    [type |-> "header", text |-> [kind |-> "title", chapter |-> chapterName]]

subtitleBlock(chapterUrl, days, dateRange) ==
    [type |-> "context",
     text |-> [kind |-> "subtitle", days |-> days, range |-> dateRange, url |-> chapterUrl]]

emptyBlock(days) ==
    [type |-> "section", text |-> [kind |-> "empty", days |-> days]]

dividerBlock == [type |-> "divider", text |-> [kind |-> "divider"]]

overflowBlock(overflow) ==
    [type |-> "context",
     text |-> [kind |-> "overflow", count |-> overflow,
               plural |-> IF overflow = 1 THEN "" ELSE "s"]]

\* line 231: location_address || location_name || undefined ("" is no location)
Location(session) ==
    IF Truthy(session.location_address) THEN session.location_address
    ELSE IF Truthy(session.location_name) THEN session.location_name
    ELSE ""

\* lines 227-237; an absent segment is the empty string
sessionLine(session, isVirtual, typeLabel) ==
    [time |-> formatDateRange(getTime(session.start_time), getTime(session.end_time)),
     location |-> IF Truthy(Location(session)) /\ ~isVirtual THEN Location(session) ELSE "",
     label |-> typeLabel]

isVirtualType(normalizedType) == normalizedType = "virtual" \/ normalizedType = "online"

\* lines 221-245
sectionBlock(event) ==
    LET normalizedType == toLowerCase(event.event_type)
    IN  [type |-> "section",
         text |-> [kind |-> "event", id |-> event.id, url |-> event.event_page_url,
                   title |-> event.title,
                   lines |-> [i \in 1..Len(event.event_sessions) |->
                                sessionLine(event.event_sessions[i],
                                            isVirtualType(normalizedType),
                                            eventTypeLabel(normalizedType))]]]

\* line 216
Overflow(events) == IF Len(events) > MAX_GROUPS THEN Len(events) - MAX_GROUPS ELSE 0

\* a faulty visibleEvents: the list is not cut at MAX_GROUPS
visibleEventsUntruncated(events) == events

\* line 217
visibleEvents(events) ==
    IF Overflow(events) > 0 THEN SubSeq(events, 1, MAX_GROUPS) ELSE events

\* lines 219-249: a section then a divider for every visible event
PushEventBlocks(visible) ==
    [j \in 1..(2 * Len(visible)) |->
        IF j % 2 = 1 THEN sectionBlock(visible[(j + 1) \div 2]) ELSE dividerBlock]

\* a faulty RemoveTrailingDivider: the last divider stays
KeepTrailingDivider(eventBlocks) == eventBlocks

\* lines 251-254
RemoveTrailingDivider(eventBlocks) ==
    IF Len(eventBlocks) > 0 /\ eventBlocks[Len(eventBlocks)].type = "divider"
    THEN SubSeq(eventBlocks, 1, Len(eventBlocks) - 1)
    ELSE eventBlocks

\* lines 256-266
PushOverflow(eventBlocks, overflow) ==
    IF overflow > 0 THEN Append(eventBlocks, overflowBlock(overflow)) ELSE eventBlocks

\* t0 is the clock read at line 180
buildBlocks(chapterName, chapterUrl, events, days, t0) ==
    IF Len(events) = 0
    THEN <<headerBlock(chapterName),
           subtitleBlock(chapterUrl, days, formatHeaderDateRange(t0, days)),
           emptyBlock(days)>>
    ELSE <<headerBlock(chapterName),
           subtitleBlock(chapterUrl, days, formatHeaderDateRange(t0, days))>>
         \o PushOverflow(RemoveTrailingDivider(PushEventBlocks(visibleEvents(events))),
                         Overflow(events))

\* lines 291-294
fallbackText(displayName, events, days) ==
    [kind |-> IF Len(events) > 0 THEN "count" ELSE "none",
     chapter |-> displayName, count |-> Len(events), days |-> days]

\* ------------------------------------------------------------ configuration
\* the chapters a configuration may name
Chapters ==
    << [chapterId |-> 11, channelId |-> "C01", name |-> "North", pageUrl |-> "https://n"],
       [chapterId |-> 12, channelId |-> "C02", name |-> "South", pageUrl |-> "https://s"],
       [chapterId |-> 13, channelId |-> "C03", name |-> "East", pageUrl |-> "https://e"],
       [chapterId |-> 14, channelId |-> "C04", name |-> "West", pageUrl |-> "https://w"] >>

\* CHAPTER_CHANNEL_MAPPING: unset, not JSON, JSON that is no array, or an
\* array of n mappings
RawMappings ==
    {[kind |-> k, items |-> <<>>] : k \in {"unset", "malformed", "object"}}
    \cup {[kind |-> "array", items |-> SubSeq(Chapters, 1, n)] : n \in 0..MaxChapters}

Configs ==
    [apiKey : {"", "key"}, slackToken : {"", "xoxb"}, mappingRaw : RawMappings]

\* lines 305-329: the checks main makes before the loop
ConfigValid(c) ==
    /\ c.apiKey # ""
    /\ c.slackToken # ""
    /\ c.mappingRaw.kind # "unset"
    /\ c.mappingRaw.kind # "malformed"
    /\ c.mappingRaw.kind = "array"
    /\ Len(c.mappingRaw.items) # 0

\* the response of the API to GET /v1/events?_limit=limit&_page=p
PageOf(events, p) ==
    SubSeq(events, (p - 1) * limit + 1,
           IF p * limit < Len(events) THEN p * limit ELSE Len(events))

NoStatus == [i \in 1..0 |-> "pending"]

Init ==
    /\ config \in Configs
    /\ daysAhead \in {0, MaxDaysAhead}
    /\ now = 0
    /\ pc = "start"
    /\ mappings = <<>>
    /\ idx = 1
    /\ anyFailed = FALSE
    /\ outcome = "running"
    /\ upstream = <<>>
    /\ page = 1
    /\ allEvents = <<>>
    /\ requested = <<>>
    /\ apiErrors = <<>>
    /\ filtered = <<>>
    /\ blocks = <<>>
    /\ posted = <<>>
    /\ attempts = <<>>
    /\ status = NoStatus

\* -------------------------------------------------------------------- main
\* lines 305-329: a missing or invalid configuration exits with status 1
ConfigError ==
    /\ pc = "start"
    /\ ~ConfigValid(config)
    /\ outcome' = "failure"
    /\ pc' = "exited"
    /\ UNCHANGED <<apiErrors, config, daysAhead, now, mappings, idx, anyFailed, upstream, page,
                   allEvents, requested, filtered, blocks, posted, attempts, status>>

\* lines 320, 331-332
ConfigOk ==
    /\ pc = "start"
    /\ ConfigValid(config)
    /\ mappings' = config.mappingRaw.items
    /\ status' = [i \in 1..Len(config.mappingRaw.items) |-> "pending"]
    /\ idx' = 1
    /\ anyFailed' = FALSE
    /\ pc' = "loop"
    /\ UNCHANGED <<apiErrors, config, daysAhead, now, outcome, upstream, page, allEvents,
                   requested, filtered, blocks, posted, attempts>>

\* lines 334-336, 280-283, 50-52: the loop calls postChapter for the next
\* mapping, which calls fetchAllEvents; time has passed since the last chapter
StartChapter ==
    /\ pc = "loop"
    /\ idx <= Len(mappings)
    /\ attempts' = Append(attempts, idx)
    /\ status' = [status EXCEPT ![idx] = "running"]
    /\ \E n \in UpstreamSizes : upstream' = Upstream(n)
    /\ now' = now + 1
    /\ page' = 1
    /\ allEvents' = <<>>
    /\ filtered' = <<>>
    /\ blocks' = <<>>
    /\ pc' = "fetch"
    /\ UNCHANGED <<config, daysAhead, mappings, idx, anyFailed, outcome, requested,
                   apiErrors, posted>>

\* a faulty CatchHandler: the catch is around the loop, not inside it
CatchHandlerAbortsLoop ==
    /\ anyFailed' = TRUE
    /\ status' = [status EXCEPT ![idx] = "failed"]
    /\ idx' = Len(mappings) + 1
    /\ pc' = "loop"

\* lines 337-340: the catch of the loop body, then the next iteration
CatchHandler ==
    /\ anyFailed' = TRUE
    /\ status' = [status EXCEPT ![idx] = "failed"]
    /\ idx' = idx + 1
    /\ pc' = "loop"

\* the loop body returned normally
ChapterDone ==
    /\ status' = [status EXCEPT ![idx] = "ok"]
    /\ idx' = idx + 1
    /\ pc' = "loop"
    /\ UNCHANGED anyFailed

\* lines 55-66: the request for the current page is sent
FetchRequest ==
    /\ pc = "fetch"
    /\ requested' = Append(requested, [chapter |-> idx, page |-> page])
    /\ pc' = "await"
    /\ UNCHANGED <<apiErrors, config, daysAhead, now, mappings, idx, anyFailed, outcome, upstream,
                   page, allEvents, filtered, blocks, posted, attempts, status>>

\* a faulty FetchError: a non-success response ends the pagination
\* instead of throwing
FetchErrorIgnored ==
    /\ pc = "await"
    /\ apiErrors' = Append(apiErrors, [chapter |-> idx, page |-> page])
    /\ pc' = "filter"
    /\ UNCHANGED <<config, daysAhead, now, mappings, idx, anyFailed, outcome, upstream,
                   page, allEvents, requested, filtered, blocks, posted, attempts, status>>

\* lines 68-72: a non-success response throws out of postChapter
FetchError ==
    /\ pc = "await"
    /\ apiErrors' = Append(apiErrors, [chapter |-> idx, page |-> page])
    /\ CatchHandler
    /\ UNCHANGED <<config, daysAhead, now, mappings, outcome, upstream, page,
                   allEvents, requested, filtered, blocks, posted, attempts>>

\* a faulty LastPage: only an empty page ends the pagination
LastPageWhenEmpty(events) == Len(events) = 0

\* line 78
LastPage(events) == Len(events) < limit

\* lines 74-79: a success response is accumulated; a short page ends the loop
FetchPage ==
    /\ pc = "await"
    /\ LET events == PageOf(upstream, page)
       IN  /\ allEvents' = allEvents \o events
           /\ IF LastPage(events)
              THEN pc' = "filter" /\ page' = page
              ELSE pc' = "fetch" /\ page' = page + 1
    /\ UNCHANGED <<apiErrors, config, daysAhead, now, mappings, idx, anyFailed, outcome, upstream,
                   requested, filtered, blocks, posted, attempts, status>>

\* line 284 (line 93 reads the clock); a TypeError of the comparator would
\* throw out of postChapter
DoFilter ==
    /\ pc = "filter"
    /\ LET r == filterAndSortEvents(allEvents, daysAhead, now)
       IN  IF r.threw
           THEN CatchHandler /\ filtered' = filtered
           ELSE /\ filtered' = r.value
                /\ pc' = "build"
                /\ UNCHANGED <<idx, anyFailed, status>>
    /\ UNCHANGED <<apiErrors, config, daysAhead, now, mappings, outcome, upstream, page, allEvents,
                   requested, blocks, posted, attempts>>

\* line 290
DoBuild ==
    /\ pc = "build"
    /\ blocks' = buildBlocks(mappings[idx].name, mappings[idx].pageUrl, filtered,
                             daysAhead, now)
    /\ pc' = "post"
    /\ UNCHANGED <<apiErrors, config, daysAhead, now, mappings, idx, anyFailed, outcome, upstream,
                   page, allEvents, requested, filtered, posted, attempts, status>>

\* lines 296-300
Message ==
    [channel |-> mappings[idx].channelId,
     text |-> fallbackText(mappings[idx].name, filtered, daysAhead),
     blocks |-> blocks]

\* lines 296-301: the chat API accepts the message
PostMessage ==
    /\ pc = "post"
    /\ posted' = Append(posted, Message)
    /\ ChapterDone
    /\ UNCHANGED <<apiErrors, config, daysAhead, now, mappings, outcome, upstream, page,
                   allEvents, requested, filtered, blocks, attempts>>

\* line 296: the chat API call fails, which throws out of postChapter
PostError ==
    /\ pc = "post"
    /\ CatchHandler
    /\ UNCHANGED <<apiErrors, config, daysAhead, now, mappings, outcome, upstream, page,
                   allEvents, requested, filtered, blocks, posted, attempts>>

\* a faulty Finish: the exit status does not depend on anyFailed
FinishIgnoringFailures ==
    /\ pc = "loop"
    /\ idx > Len(mappings)
    /\ outcome' = "success"
    /\ pc' = "exited"
    /\ UNCHANGED <<apiErrors, config, daysAhead, now, mappings, idx, anyFailed, upstream,
                   page, allEvents, requested, filtered, blocks, posted, attempts, status>>

\* lines 343-346: after the loop
Finish ==
    /\ pc = "loop"
    /\ idx > Len(mappings)
    /\ outcome' = IF anyFailed THEN "failure" ELSE "success"
    /\ pc' = "exited"
    /\ UNCHANGED <<apiErrors, config, daysAhead, now, mappings, idx, anyFailed, upstream, page,
                   allEvents, requested, filtered, blocks, posted, attempts, status>>

Next ==
    \/ ConfigError
    \/ ConfigOk
    \/ StartChapter
    \/ FetchRequest
    \/ FetchError
    \/ FetchPage
    \/ DoFilter
    \/ DoBuild
    \/ PostMessage
    \/ PostError
    \/ Finish

Spec == Init /\ [][Next]_vars

\* --------------------------------------------------- fetchAllEvents alone
\* postChapter at its call of fetchAllEvents, for an upstream of every size
\* up to one event past the last full page.
FetchInit ==
    /\ config = [apiKey |-> "key", slackToken |-> "xoxb",
                 mappingRaw |-> [kind |-> "array", items |-> SubSeq(Chapters, 1, 1)]]
    /\ daysAhead = MaxDaysAhead
    /\ now = 1
    /\ pc = "fetch"
    /\ mappings = SubSeq(Chapters, 1, 1)
    /\ idx = 1
    /\ anyFailed = FALSE
    /\ outcome = "running"
    /\ upstream \in {Upstream(n) : n \in 0..(MaxFullPages * limit + 1)}
    /\ page = 1
    /\ allEvents = <<>>
    /\ requested = <<>>
    /\ apiErrors = <<>>
    /\ filtered = <<>>
    /\ blocks = <<>>
    /\ posted = <<>>
    /\ attempts = <<1>>
    /\ status = [i \in 1..1 |-> "running"]

FetchNext ==
    \/ FetchRequest
    \/ FetchError
    \/ FetchPage

\* fetchAllEvents makes progress: the request of line 61 is sent, every
\* request is answered (with either status), and the runtime then runs the
\* continuation of the await.
FetchSpec ==
    FetchInit /\ [][FetchNext]_vars
    /\ WF_vars(FetchRequest) /\ WF_vars(FetchPage \/ FetchError)

\* ------------------------------------------------------ the pipeline alone
\* postChapter with allEvents in hand, for every short list of events over
\* the catalogue and the long lists the upstream serves.
PipelineInit ==
    /\ config = [apiKey |-> "key", slackToken |-> "xoxb",
                 mappingRaw |-> [kind |-> "array", items |-> SubSeq(Chapters, 1, 1)]]
    /\ daysAhead \in (-1)..MaxDaysAhead
    /\ now \in 0..MaxClock
    /\ pc = "filter"
    /\ mappings = SubSeq(Chapters, 1, 1)
    /\ idx = 1
    /\ anyFailed = FALSE
    /\ outcome = "running"
    /\ upstream \in ListsUpTo(MaxLen) \cup {Upstream(n) : n \in 0..MaxEvents}
    /\ page = 1
    /\ allEvents = upstream
    /\ requested = <<[chapter |-> 1, page |-> 1]>>
    /\ apiErrors = <<>>
    /\ filtered = <<>>
    /\ blocks = <<>>
    /\ posted = <<>>
    /\ attempts = <<1>>
    /\ status = [i \in 1..1 |-> "running"]

PipelineNext ==
    \/ DoFilter
    \/ DoBuild

PipelineSpec == PipelineInit /\ [][PipelineNext]_vars
\* ------------------------------------------------------------- properties
\* the sequence 1, 2, ..., n
Counting(n) == [i \in 1..n |-> i]

\* the pages requested for chapter c, in the order of the requests
PagesOf(c) ==
    LET r == SelectSeq(requested, LAMBDA q : q.chapter = c)
    IN  [i \in 1..Len(r) |-> r[i].page]

\* the instant a session starts, from its ISO string
StartInstant(s) == s.start_time.wall - s.start_time.offset

\* the sessions of e that start in [now, now + daysAhead * 24h]
SessionsInside(e) ==
    SelectSeq(e.event_sessions,
              LAMBDA s : /\ now <= StartInstant(s)
                         /\ StartInstant(s) <= now + daysAhead * 86400000)

Finished(i) == status[i] \in {"ok", "failed"}

InRun == pc \in {"fetch", "await", "filter", "build", "post"}

Fetching == pc \in {"fetch", "await"}

Filtered == pc \in {"build", "post"}

\* C1: with a valid configuration the driver starts a run for every chapter
\* exactly once and in input order, starts chapter i+1 only when the run of
\* chapter i has finished (ok or failed), and a failed chapter does not keep
\* the later ones from being attempted.
C1_ChaptersInOrder ==
    /\ attempts = Counting(Len(attempts))
    /\ Len(attempts) <= Len(mappings)
    /\ \A i \in 1..Len(status) :
        /\ i < Len(attempts) => Finished(i)
        /\ i = Len(attempts) => status[i] # "pending"
        /\ i > Len(attempts) => status[i] = "pending"
    /\ \A a, b \in 1..Len(requested) : a < b => requested[a].chapter <= requested[b].chapter
    /\ (pc = "exited" /\ ConfigValid(config)) =>
        /\ attempts = Counting(Len(config.mappingRaw.items))
        /\ \A i \in 1..Len(status) : Finished(i)

\* a run in which the first chapter failed and the second was still run
C1_Witness ==
    /\ pc = "exited"
    /\ Len(status) >= 2
    /\ status[1] = "failed"
    /\ status[2] = "ok"
    /\ attempts = <<1, 2>>

\* the safety half of C2
C2_Pagination ==
    InRun =>
        LET pages == PagesOf(idx)
            answered == IF pc = "await" THEN Len(pages) - 1 ELSE Len(pages)
            n == Len(upstream)
        IN  /\ pages = Counting(Len(pages))
            /\ pc = "await" => page = Len(pages)
            /\ pc = "fetch" => page = Len(pages) + 1
            /\ Fetching =>
                /\ answered * 100 <= n
                /\ allEvents = SubSeq(upstream, 1, answered * 100)
            /\ ~Fetching =>
                /\ allEvents = upstream
                /\ Len(pages) = (n \div 100) + 1
                /\ n % 100 = 0 => Len(allEvents) = (Len(pages) - 1) * 100

\* C2: fetchAllEvents requests pages 1, 2, 3, ... one at a time, each after the
\* answer to the one before, stops at the first page of fewer than 100 events
\* and returns the pages concatenated in order; it terminates on every finite
\* upstream, and when the last page holds exactly 100 events it makes exactly
\* one more request, which returns nothing.
C2_FetchAllEvents == [](C2_Pagination) /\ (Fetching ~> ~Fetching)

\* an upstream of exactly one full page: two requests, the second one empty
C2_Witness ==
    /\ pc = "filter"
    /\ Len(upstream) = 100
    /\ PagesOf(idx) = <<1, 2>>
    /\ allEvents = upstream

\* C3: buildBlocks returns at most 50 blocks; up to 23 events are all rendered
\* as sections without an overflow notice; of more than 23, exactly the first
\* 23 are rendered and the notice reports the count less 23.
C3_BlockBudget ==
    pc = "post" =>
        LET n == Len(filtered)
            sections == SelectSeq(blocks, LAMBDA b : b.type = "section" /\ b.text.kind = "event")
            notices == SelectSeq(blocks, LAMBDA b : b.text.kind = "overflow")
        IN  /\ Len(blocks) <= SlackMaxBlocks
            /\ n <= 23 =>
                /\ notices = <<>>
                /\ Len(sections) = n
                /\ \A i \in 1..n : sections[i].text.id = filtered[i].id
            /\ n > 23 =>
                /\ Len(sections) = 23
                /\ \A i \in 1..23 : sections[i].text.id = filtered[i].id
                /\ Len(notices) = 1
                /\ notices[1].text.count = n - 23
                /\ blocks[Len(blocks)] = notices[1]

\* a document built from more than 24 events
C3_Witness ==
    /\ pc = "post"
    /\ Len(filtered) > 24
    /\ blocks[Len(blocks)].text.kind = "overflow"

\* C4: an input event is left out exactly when it has no page URL, carries
\* the tag slack-exclude, or has no session starting in the inclusive window
\* [now, now + daysAhead * 24h]; an event kept has exactly its sessions in the
\* window, so at least one.
C4_WindowFilter ==
    Filtered =>
        /\ \A i \in 1..Len(allEvents) :
            LET e == allEvents[i]
            IN  (\/ e.event_page_url \in {Null, ""}
                 \/ "slack-exclude" \in e.tags
                 \/ SessionsInside(e) = <<>>)
                <=> ~(\E j \in 1..Len(filtered) : filtered[j].id = e.id)
        /\ \A j \in 1..Len(filtered) :
            /\ Len(filtered[j].event_sessions) >= 1
            /\ \E i \in 1..Len(allEvents) :
                LET inside == SessionsInside(allEvents[i])
                IN  /\ allEvents[i] = [filtered[j] EXCEPT !.event_sessions = allEvents[i].event_sessions]
                    /\ Len(filtered[j].event_sessions) = Len(inside)
                    /\ {filtered[j].event_sessions[k] : k \in 1..Len(inside)}
                       = {inside[k] : k \in 1..Len(inside)}
        /\ \A j, k \in 1..Len(filtered) : filtered[j].id = filtered[k].id => j = k

\* one event kept with fewer sessions than it came with (one of them on the
\* cutoff), another dropped for its tag
C4_Witness ==
    /\ pc = "build"
    /\ Len(allEvents) = 2
    /\ Len(filtered) = 1
    /\ Len(filtered[1].event_sessions) < Len(allEvents[filtered[1].id].event_sessions)
    /\ StartInstant(filtered[1].event_sessions[1]) = now + daysAhead * 86400000
    /\ \E i \in 1..2 : "slack-exclude" \in allEvents[i].tags

\* the failed page requests of C5
C5_Aborted(e) ==
    /\ PagesOf(e.chapter) = Counting(e.page)
    /\ \A m \in 1..Len(posted) : posted[m].channel # mappings[e.chapter].channelId
    /\ status[e.chapter] = "failed"
    /\ anyFailed
    /\ idx > e.chapter
    /\ pc # "exited" => outcome = "running"
    /\ pc = "exited" => Len(attempts) = Len(mappings)

\* C5: when a page request of a chapter gets a non-success status, the
\* chapter's run ends there: no further page is requested for it, nothing
\* is posted to its channel, the chapter is marked failed, and the driver
\* goes on with the next chapter.
C5_FetchErrorAborts == \A k \in 1..Len(apiErrors) : C5_Aborted(apiErrors[k])

\* the second page of a chapter failed, after a full first page, and the
\* other chapter was delivered
C5_Witness ==
    /\ pc = "exited"
    /\ Len(apiErrors) = 1
    /\ apiErrors[1].page = 2
    /\ Len(posted) = 1

\* C6: the outcome is success exactly when the configuration is valid and
\* every chapter's run succeeded; it is the non-zero outcome when the
\* configuration is missing or invalid or a chapter failed, and then only
\* after every configured chapter has been attempted.
C6_Outcome ==
    /\ pc # "exited" => outcome = "running"
    /\ pc = "exited" =>
        LET chapters == config.mappingRaw.items
        IN  /\ outcome \in {"success", "failure"}
            /\ outcome = "success" <=>
                /\ ConfigValid(config)
                /\ Len(status) = Len(chapters)
                /\ \A i \in 1..Len(chapters) :
                    /\ status[i] = "ok"
                    /\ \E m \in 1..Len(posted) : posted[m].channel = chapters[i].channelId
            /\ outcome = "failure" <=>
                \/ ~ConfigValid(config)
                \/ \E i \in 1..Len(status) : status[i] = "failed"
            /\ ConfigValid(config) => attempts = Counting(Len(chapters))
            /\ ~ConfigValid(config) => attempts = <<>> /\ requested = <<>> /\ posted = <<>>

\* a valid configuration whose last chapter failed at delivery
C6_Witness ==
    /\ pc = "exited"
    /\ ConfigValid(config)
    /\ outcome = "failure"
    /\ Len(status) >= 2
    /\ status[1] = "ok"
    /\ status[Len(status)] = "failed"
    /\ apiErrors = <<>>

\* C7: for 1 to 23 filtered events the last block is not a divider.
C7_NoTrailingDivider ==
    (pc = "post" /\ Len(filtered) >= 1 /\ Len(filtered) <= 23) =>
        blocks[Len(blocks)].type # "divider"

\* a document of 23 events: dividers between the sections, none at the end
C7_Witness ==
    /\ pc = "post"
    /\ Len(filtered) = 23
    /\ blocks[Len(blocks)].type = "section"
    /\ blocks[Len(blocks) - 1].type = "divider"

\* C8: the result is ascending in the start of each event's first remaining
\* session, which is its earliest session in the window, and events whose
\* first sessions start at the same instant keep their input order.
C8_SortedStable ==
    Filtered =>
        /\ \A j \in 1..Len(filtered) :
            \A k \in 1..Len(filtered[j].event_sessions) :
                StartInstant(filtered[j].event_sessions[1])
                <= StartInstant(filtered[j].event_sessions[k])
        /\ \A i, j \in 1..Len(filtered) :
            i < j =>
                LET a == StartInstant(filtered[i].event_sessions[1])
                    b == StartInstant(filtered[j].event_sessions[1])
                IN  /\ a <= b
                    /\ a = b => filtered[i].id < filtered[j].id

\* a result with a tie and with a pair the sort exchanged
C8_Witness ==
    /\ pc = "build"
    /\ \E i, j \in 1..Len(filtered) :
        /\ i < j
        /\ StartInstant(filtered[i].event_sessions[1])
           = StartInstant(filtered[j].event_sessions[1])
    /\ \E i, j \in 1..Len(filtered) : i < j /\ filtered[i].id > filtered[j].id

\* C9: filterAndSortEvents returns a sequence and never throws, and it returns
\* the empty sequence when no event has a session in the window.
C9_NeverThrows ==
    pc # "filter" =>
        /\ Filtered
        /\ status[idx] = "running"
        /\ ~anyFailed
        /\ (\A i \in 1..Len(allEvents) : SessionsInside(allEvents[i]) = <<>>) => filtered = <<>>

\* two displayable events with sessions, none of them in the window
C9_Witness ==
    /\ pc = "build"
    /\ filtered = <<>>
    /\ Len(allEvents) >= 2
    /\ \A i \in 1..Len(allEvents) :
        /\ allEvents[i].event_page_url \notin {Null, ""}
        /\ "slack-exclude" \notin allEvents[i].tags
        /\ Len(allEvents[i].event_sessions) >= 1

\* one filtered event of virtual type with two sessions
C10_Scenario ==
    /\ pc = "post"
    /\ Len(filtered) = 1
    /\ filtered[1].event_type \in {"virtual", "Virtual"}
    /\ Len(filtered[1].event_sessions) = 2

\* the section of scenario B: both session lines, no location, the label
C10_Section(b) ==
    /\ b.type = "section"
    /\ b.text.kind = "event"
    /\ Len(b.text.lines) = 2
    /\ \A k \in 1..2 :
        /\ b.text.lines[k].time.start = StartInstant(filtered[1].event_sessions[k])
        /\ b.text.lines[k].location = ""
        /\ b.text.lines[k].label = "Virtual"

\* C10 as stated: the document of scenario B has 4 blocks.
C10_FourBlocks ==
    C10_Scenario =>
        /\ Len(blocks) = 4
        /\ blocks[1].type = "header"
        /\ blocks[2].type = "context"
        /\ C10_Section(blocks[3])

\* C10 (amended): for one filtered event of virtual type with 2 sessions the
\* document has 3 blocks, header, subtitle and section, with no divider; the
\* section carries both session lines, each without a location segment and
\* each with the Virtual label.
C10_ThreeBlocks ==
    C10_Scenario =>
        /\ Len(blocks) = 3
        /\ blocks[1].type = "header"
        /\ blocks[2].type = "context"
        /\ C10_Section(blocks[3])
        /\ \A i \in 1..Len(blocks) : blocks[i].type # "divider"

\* scenario B with sessions that do have an address
C10_Witness ==
    /\ C10_Scenario
    /\ \A k \in 1..2 : filtered[1].event_sessions[k].location_address # ""
    /\ Len(blocks) = 3
====
